---- MODULE Spec2Model ----
(***************************************************************************)
(* A model of the red-black tree of ma_tree.py (class RBT) and of its node *)
(* class BasicNode (ma_node.py) with the validation base class             *)
(* HouseOfHades (hades_the_god.py).                                        *)
(*                                                                         *)
(* Objects.  A BasicNode object is named by the value it stores: the tree  *)
(* never links two nodes holding equal data (a node is created per insert  *)
(* call and linked only when the descent finds no equal value), and a node *)
(* that is not linked is garbage, so the stored value identifies the       *)
(* object.  `heap` maps every linked node to its fields.                   *)
(*                                                                         *)
(* Calls.  Every method is an operator from the tree state s =             *)
(* [root, length, heap] to a result [s, ret, exc, warn]: the state the     *)
(* call leaves behind, the returned reference, the exception that escaped  *)
(* ("none" when the call returned) and whether warnings.warn was called.   *)
(***************************************************************************)
EXTENDS Integers, Sequences, FiniteSets, TLC

\* ------------------------------------------------------------------ bounds
\* Numeric values offered to insert: 1..MaxVal.
MaxVal == 6

Numbers == 1..MaxVal

\* BasicNode objects built for the calls made on nodes directly.
MaxNodes == 2

\* The insertion orders of the documented scenarios.
Scenario8 == <<13, 8, 17, 1, 11, 15, 25, 6>>

Scenario3 == <<1, 2, 3>>

ScenarioValues == {Scenario8[i] : i \in DOMAIN Scenario8}

\* ------------------------------------------------------------------ values
\* Color(Enum)
BLACK == 0

RED == 1

\* Python values offered to the tree: None, an int, the str "2", another RBT
\* instance, and a freshly built BasicNode(i) (RED, unlinked).
None == [kind |-> "none", v |-> 0]

Num(i) == [kind |-> "num", v |-> i]

Str == [kind |-> "str", v |-> 2]

OtherTree == [kind |-> "rbt", v |-> 0]

Node(i) == [kind |-> "node", v |-> i]

\* type(value) in {int, float}
IsNumber(value) == value.kind = "num"

\* isinstance(value, BasicNode)
IsNode(value) == value.kind = "node"

\* a < b, a > b between Python values raise TypeError unless both are numbers
Orderable(a, b) == IsNumber(a) /\ IsNumber(b)

\* ----------------------------------------------------------------- results
Ret(s, r) == [s |-> s, ret |-> r, exc |-> "none", warn |-> FALSE]

Raise(s, e) == [s |-> s, ret |-> None, exc |-> e, warn |-> FALSE]

\* ------------------------------------------------------------ HouseOfHades
\* adjudging(case): the exception it raises, "none" when it passes.  RBT does
\* not derive from HouseOfHades; BasicNode does.
adjudging(case) ==
    IF case = None THEN "ValueError"
    ELSE IF IsNode(case) THEN "TypeError"
    ELSE "none"

\* --------------------------------------------------------------- BasicNode
\* BasicNode.__init__(value): the fields of the new object.
BasicNode(value) ==
    [color |-> RED, left |-> None, right |-> None, data |-> value, parent |-> None]

\* The name of a node object in the heap.
Id(node) == node.data

\* The heap with the object `node` in it.
Alloc(h, node) == (Id(node) :> node) @@ h

\* Every caller passes Color.RED or Color.BLACK, so the ValueError of set_color
\* and of __init__ is never raised; likewise set_left and set_right are only
\* given None or a node, never an object that makes them raise TypeError.
set_color(h, self, new_color) == [h EXCEPT ![self].color = new_color]

\* set_left that stores the child without writing its parent back-reference.
set_left_no_backref(h, self, new_node) == [h EXCEPT ![self].left = new_node]

set_left(h, self, new_node) ==
    LET h1 == [h EXCEPT ![self].left = new_node]
    IN  IF new_node # None THEN [h1 EXCEPT ![new_node].parent = self] ELSE h1

\* set_right that clears the parent back-reference of the child it detaches.
set_right_detaching(h, self, new_node) ==
    LET old == h[self].right
        h0 == IF old # None THEN [h EXCEPT ![old].parent = None] ELSE h
        h1 == [h0 EXCEPT ![self].right = new_node]
    IN  IF new_node # None THEN [h1 EXCEPT ![new_node].parent = self] ELSE h1

set_right(h, self, new_node) ==
    LET h1 == [h EXCEPT ![self].right = new_node]
    IN  IF new_node # None THEN [h1 EXCEPT ![new_node].parent = self] ELSE h1

\* set_left / set_right as called on a node with any argument: the type check
\* of lines 61-62 / 77-78, then the assignments.
set_left_call(h, self, new_node) ==
    IF ~(new_node = None \/ new_node \in DOMAIN h) THEN Raise(h, "TypeError")
    ELSE Ret(set_left(h, self, new_node), None)

set_right_call(h, self, new_node) ==
    IF ~(new_node = None \/ new_node \in DOMAIN h) THEN Raise(h, "TypeError")
    ELSE Ret(set_right(h, self, new_node), None)

get_parent(h, self) == h[self].parent

get_grand_parent(h, self) ==
    IF h[self].parent # None THEN h[h[self].parent].parent ELSE None

\* self._parent.get_data() > self.get_data()
is_left_child(h, self) == h[h[self].parent].data.v > h[self].data.v

is_right_child(h, self) == h[h[self].parent].data.v < h[self].data.v

get_uncle(h, self) ==
    LET parent == h[self].parent
    IN  IF parent = None THEN None
        ELSE LET grand_parent == h[parent].parent
             IN  IF grand_parent = None THEN None
                 ELSE IF is_left_child(h, parent) THEN h[grand_parent].right
                 ELSE h[grand_parent].left

get_sibling(h, self) ==
    LET parent == h[self].parent
    IN  IF parent = None THEN None
        ELSE IF is_left_child(h, self) THEN h[parent].right
        ELSE h[parent].left

\* --------------------------------------------------------------------- RBT
is_empty(s) == s.root = None

\* _insert_node with the two branches of the descent exchanged.
RECURSIVE _insert_node_flipped(_, _, _)
_insert_node_flipped(s, start_node, inserted_node) ==
    LET value == inserted_node.data
        data  == s.heap[start_node].data
    IN  IF value = data
        THEN [Ret(s, start_node) EXCEPT !.warn = TRUE]
        ELSE IF ~Orderable(value, data) THEN Raise(s, "TypeError")
        ELSE IF value.v > data.v
        THEN IF s.heap[start_node].left # None
             THEN _insert_node_flipped(s, s.heap[start_node].left, inserted_node)
             ELSE Ret([s EXCEPT
                         !.heap = set_left(Alloc(s.heap, inserted_node),
                                           start_node, Id(inserted_node)),
                         !.length = @ + 1],
                      Id(inserted_node))
        ELSE IF s.heap[start_node].right # None
             THEN _insert_node_flipped(s, s.heap[start_node].right, inserted_node)
             ELSE Ret([s EXCEPT
                         !.heap = set_right(Alloc(s.heap, inserted_node),
                                            start_node, Id(inserted_node)),
                         !.length = @ + 1],
                      Id(inserted_node))

RECURSIVE _insert_node(_, _, _)
_insert_node(s, start_node, inserted_node) ==
    LET value == inserted_node.data
        data  == s.heap[start_node].data
    IN  IF value = data
        THEN [Ret(s, start_node) EXCEPT !.warn = TRUE]
        ELSE IF ~Orderable(value, data) THEN Raise(s, "TypeError")
        ELSE IF value.v < data.v
        THEN IF s.heap[start_node].left # None
             THEN _insert_node(s, s.heap[start_node].left, inserted_node)
             ELSE Ret([s EXCEPT
                         !.heap = set_left(Alloc(s.heap, inserted_node),
                                           start_node, Id(inserted_node)),
                         !.length = @ + 1],
                      Id(inserted_node))
        ELSE IF s.heap[start_node].right # None
             THEN _insert_node(s, s.heap[start_node].right, inserted_node)
             ELSE Ret([s EXCEPT
                         !.heap = set_right(Alloc(s.heap, inserted_node),
                                            start_node, Id(inserted_node)),
                         !.length = @ + 1],
                      Id(inserted_node))

\* _insert_numeric that counts the call even when the value was a duplicate.
_insert_numeric_counting(s, start_node, value) ==
    IF ~IsNumber(value) THEN Raise(s, "AssertionError")
    ELSE LET r == _insert_node(s, start_node, BasicNode(value))
         IN  IF r.warn THEN [r EXCEPT !.s.length = @ + 1] ELSE r

_insert_numeric(s, start_node, value) ==
    IF ~IsNumber(value) THEN Raise(s, "AssertionError")
    ELSE _insert_node(s, start_node, BasicNode(value))

_insert(s, value) ==
    IF ~(IsNumber(value) \/ IsNode(value)) THEN Raise(s, "AssertionError")
    ELSE IF IsNode(value)
    THEN _insert_node(s, s.root, BasicNode(Num(value.v)))
    ELSE _insert_numeric(s, s.root, value)

\* BasicNode defines no set_parent (ma_node.py), and None has no attributes:
\* `middle.set_parent(...)` raises AttributeError before any link is written.
_rotate_left(s, start_node) ==
    LET middle == s.heap[start_node].right
    IN  Raise(s, "AttributeError")

_rotate_right(s, start_node) ==
    LET middle == s.heap[start_node].left
    IN  Raise(s, "AttributeError")

\* __recolor_case3: parent is RED and uncle is BLACK or absent.
__recolor_case3(s, start_node) ==
    LET h == s.heap
        parent == h[start_node].parent
        grandparent == IF parent # None THEN h[parent].parent ELSE None
    IN  IF is_left_child(h, parent) /\ is_left_child(h, start_node)
        THEN LET h1 == set_color(set_color(h, grandparent, RED), parent, BLACK)
             IN  _rotate_right([s EXCEPT !.heap = h1], grandparent)
        ELSE IF is_left_child(h, parent) /\ ~is_left_child(h, start_node)
        THEN LET r1 == _rotate_left(s, parent)
             IN  IF r1.exc # "none" THEN r1
                 ELSE LET h1 == set_color(set_left(r1.s.heap, grandparent, r1.ret),
                                          grandparent, RED)
                          r2 == _rotate_right([r1.s EXCEPT !.heap = h1], grandparent)
                      IN  IF r2.exc # "none" THEN r2
                          ELSE Ret([r2.s EXCEPT
                                      !.heap = set_color(r2.s.heap, r2.ret, BLACK)],
                                   r2.ret)
        ELSE IF ~is_left_child(h, parent) /\ is_left_child(h, start_node)
        THEN LET r1 == _rotate_right(s, parent)
             IN  IF r1.exc # "none" THEN r1
                 ELSE LET h1 == set_color(set_right(r1.s.heap, grandparent, r1.ret),
                                          grandparent, RED)
                          r2 == _rotate_left([r1.s EXCEPT !.heap = h1], grandparent)
                      IN  IF r2.exc # "none" THEN r2
                          ELSE Ret([r2.s EXCEPT
                                      !.heap = set_color(r2.s.heap, r2.ret, BLACK)],
                                   r2.ret)
        ELSE LET h1 == set_color(set_color(h, grandparent, RED), parent, BLACK)
             IN  _rotate_left([s EXCEPT !.heap = h1], grandparent)

\* _recolor whose case II leaves the grandparent's color as it is.
RECURSIVE _recolor_keeps_grandparent(_, _)
_recolor_keeps_grandparent(s, start_node) ==
    LET h == s.heap
        uncle == get_uncle(h, start_node)
        parent == h[start_node].parent
        grandparent == IF parent # None THEN h[parent].parent ELSE None
    IN  IF parent = None \/ grandparent = None
        THEN Ret(s, IF parent # None THEN parent ELSE start_node)
        ELSE IF h[parent].color = BLACK THEN Ret(s, s.root)
        ELSE IF uncle # None /\ h[uncle].color = RED
        THEN LET h1 == set_color(set_color(h, parent, BLACK), uncle, BLACK)
             IN  _recolor_keeps_grandparent([s EXCEPT !.heap = h1], grandparent)
        ELSE LET great_grandparent == h[grandparent].parent
                 c3 == __recolor_case3(s, start_node)
             IN  IF c3.exc # "none" THEN c3
                 ELSE LET h2 == c3.s.heap
                          h3 == IF great_grandparent = None THEN h2
                                ELSE IF h2[great_grandparent].data.v > h2[c3.ret].data.v
                                THEN set_left(h2, great_grandparent, c3.ret)
                                ELSE set_right(h2, great_grandparent, c3.ret)
                      IN  _recolor_keeps_grandparent([c3.s EXCEPT !.heap = h3], c3.ret)

RECURSIVE _recolor(_, _)
_recolor(s, start_node) ==
    LET h == s.heap
        uncle == get_uncle(h, start_node)
        parent == h[start_node].parent
        grandparent == IF parent # None THEN h[parent].parent ELSE None
    IN  IF parent = None \/ grandparent = None
        THEN Ret(s, IF parent # None THEN parent ELSE start_node)
        \* case I
        ELSE IF h[parent].color = BLACK THEN Ret(s, s.root)
        \* case II
        ELSE IF uncle # None /\ h[uncle].color = RED
        THEN LET h1 == set_color(set_color(set_color(h, parent, BLACK),
                                           uncle, BLACK),
                                 grandparent, RED)
             IN  _recolor([s EXCEPT !.heap = h1], grandparent)
        \* case III
        ELSE LET great_grandparent == h[grandparent].parent
                 c3 == __recolor_case3(s, start_node)
             IN  IF c3.exc # "none" THEN c3
                 ELSE LET h2 == c3.s.heap
                          h3 == IF great_grandparent = None THEN h2
                                ELSE IF h2[great_grandparent].data.v > h2[c3.ret].data.v
                                THEN set_left(h2, great_grandparent, c3.ret)
                                ELSE set_right(h2, great_grandparent, c3.ret)
                      IN  _recolor([c3.s EXCEPT !.heap = h3], c3.ret)

\* insert without its guard against None (lines 230-233).
insert_unguarded(s, value) ==
    IF is_empty(s)
    THEN IF adjudging(value) # "none" THEN Raise(s, adjudging(value))
         ELSE LET node == BasicNode(value)
              IN  Ret([root |-> Id(node),
                       heap |-> set_color(Alloc(s.heap, node), Id(node), BLACK),
                       length |-> s.length + 1],
                      None)
    ELSE LET r == _insert(s, value)
         IN  IF r.exc # "none" THEN r
             ELSE LET c == _recolor(r.s, r.ret)
                  IN  IF c.exc # "none" THEN [c EXCEPT !.warn = r.warn]
                      ELSE [s |-> [root |-> c.ret,
                                   heap |-> set_color(c.s.heap, c.ret, BLACK),
                                   length |-> c.s.length],
                            ret |-> None, exc |-> "none", warn |-> r.warn]

\* insert that counts the first element before it builds the root node.
insert_counts_first(s, value) ==
    IF value = None THEN Raise(s, "ValueError")
    ELSE IF is_empty(s)
    THEN IF adjudging(value) # "none"
         THEN Raise([s EXCEPT !.length = @ + 1], adjudging(value))
         ELSE LET node == BasicNode(value)
              IN  Ret([root |-> Id(node),
                       heap |-> set_color(Alloc(s.heap, node), Id(node), BLACK),
                       length |-> s.length + 1],
                      None)
    ELSE LET r == _insert(s, value)
         IN  IF r.exc # "none" THEN r
             ELSE LET c == _recolor(r.s, r.ret)
                  IN  IF c.exc # "none" THEN [c EXCEPT !.warn = r.warn]
                      ELSE [s |-> [root |-> c.ret,
                                   heap |-> set_color(c.s.heap, c.ret, BLACK),
                                   length |-> c.s.length],
                            ret |-> None, exc |-> "none", warn |-> r.warn]

\* RBT.insert(value)
insert(s, value) ==
    IF value = None THEN Raise(s, "ValueError")
    ELSE IF is_empty(s)
    THEN IF adjudging(value) # "none" THEN Raise(s, adjudging(value))
         ELSE LET node == BasicNode(value)
              IN  Ret([root |-> Id(node),
                       heap |-> set_color(Alloc(s.heap, node), Id(node), BLACK),
                       length |-> s.length + 1],
                      None)
    ELSE LET r == _insert(s, value)
         IN  IF r.exc # "none" THEN r
             ELSE LET c == _recolor(r.s, r.ret)
                  IN  IF c.exc # "none" THEN [c EXCEPT !.warn = r.warn]
                      ELSE [s |-> [root |-> c.ret,
                                   heap |-> set_color(c.s.heap, c.ret, BLACK),
                                   length |-> c.s.length],
                            ret |-> None, exc |-> "none", warn |-> r.warn]

\* ------------------------------------------------------------------- state
\* root, length, heap: the RBT instance and its nodes.
\* phase: "constructing" inside the loop of RBT.__init__, "constructed" once
\*        __init__ returned, "aborted" when __init__ raised.
\* lastCall, outcome, warned: the latest call on the tree, how the latest call
\*        ended ("returned" or the exception's class) and whether it emitted
\*        the duplicate warning.
\* followed: for each documented scenario, how many of its values the insert
\*        calls made so far have supplied, in order; -1 once the calls differ.
VARIABLES root, length, heap, phase, lastCall, outcome, warned, followed

vars == <<root, length, heap, phase, lastCall, outcome, warned, followed>>

tree == <<root, length, heap>>

S == [root |-> root, heap |-> heap, length |-> length]

EmptyHeap == [n \in {} |-> BasicNode(None)]

Inputs == {None, Str, OtherTree, Node(1)} \cup {Num(i) : i \in Numbers}

Advance(k, scenario, value) ==
    IF k >= 0 /\ k < Len(scenario) /\ value = Num(scenario[k + 1]) THEN k + 1 ELSE -1

\* RBT.__init__(iterable): iterable None, an iterable, or a non-iterable object.
Init ==
    /\ root = None
    /\ length = 0
    /\ heap = EmptyHeap
    /\ lastCall = [op |-> "__init__", arg |-> None]
    /\ warned = FALSE
    /\ followed = [s8 |-> 0, s3 |-> 0]
    /\ \/ phase = "constructed" /\ outcome = "returned"
       \/ phase = "constructing" /\ outcome = "running"
       \/ phase = "aborted" /\ outcome = "TypeError"

\* RBT(): the empty tree.
InitEmpty == Init /\ phase = "constructed"

\* The effect of one insert call with result r.
Called(r, value) ==
    /\ root' = r.s.root
    /\ length' = r.s.length
    /\ heap' = r.s.heap
    /\ lastCall' = [op |-> "insert", arg |-> value]
    /\ outcome' = IF r.exc = "none" THEN "returned" ELSE r.exc
    /\ warned' = r.warn
    /\ followed' = [s8 |-> Advance(followed.s8, Scenario8, value),
                    s3 |-> Advance(followed.s3, Scenario3, value)]

\* tree.insert(value) on a constructed tree.
Insert(value) ==
    /\ phase = "constructed"
    /\ Called(insert(S, value), value)
    /\ phase' = phase

\* One round of `for item in iterable: self.insert(item)` in __init__.
CtorInsert(value) ==
    /\ phase = "constructing"
    /\ Called(insert(S, value), value)
    /\ phase' = IF insert(S, value).exc = "none" THEN "constructing" ELSE "aborted"

\* The iterable is exhausted: __init__ returns.
CtorReturn ==
    /\ phase = "constructing"
    /\ phase' = "constructed"
    /\ outcome' = "returned"
    /\ lastCall' = [op |-> "__init__", arg |-> None]
    /\ UNCHANGED <<root, length, heap, warned, followed>>

\* tree._rotate_left(x) / tree._rotate_right(x) called on a node of the tree.
Rotated(r, op, x) ==
    /\ root' = r.s.root
    /\ length' = r.s.length
    /\ heap' = r.s.heap
    /\ lastCall' = [op |-> op, arg |-> x]
    /\ outcome' = IF r.exc = "none" THEN "returned" ELSE r.exc
    /\ warned' = FALSE
    /\ followed' = [s8 |-> -1, s3 |-> -1]
    /\ phase' = phase

RotateLeft(x) == phase = "constructed" /\ Rotated(_rotate_left(S, x), "_rotate_left", x)

RotateRight(x) == phase = "constructed" /\ Rotated(_rotate_right(S, x), "_rotate_right", x)

Next ==
    \/ \E value \in Inputs : Insert(value)
    \/ \E value \in Inputs : CtorInsert(value)
    \/ CtorReturn

Spec == Init /\ [][Next]_vars

\* The same with the rotation primitives called directly, as the docstrings of
\* _rotate_left and _rotate_right do.
NextRotate ==
    \/ Next
    \/ \E x \in DOMAIN heap : RotateLeft(x)
    \/ \E x \in DOMAIN heap : RotateRight(x)

SpecRotate == Init /\ [][NextRotate]_vars

\* Distinct numeric values inserted one by one into an initially empty tree.
InsertFresh(i) == Num(i) \notin DOMAIN heap /\ Insert(Num(i))

NextDistinct == \E i \in Numbers : InsertFresh(i)

SpecDistinct == InitEmpty /\ [][NextDistinct]_vars

\* The same over the values of the documented eight-value scenario.
NextScenario == \E i \in ScenarioValues : InsertFresh(i)

SpecScenario == InitEmpty /\ [][NextScenario]_vars

\* ------------------------------------------------- calls on nodes directly
\* MaxNodes nodes BasicNode(1, Color.RED), BasicNode(2, Color.BLACK), ... with
\* alternating colors, not linked, and no tree (phase "nodes").
NodeIds == {Num(i) : i \in 1..MaxNodes}

InitNodes ==
    /\ root = None
    /\ length = 0
    /\ heap = [n \in NodeIds |-> [BasicNode(n) EXCEPT !.color = n.v % 2]]
    /\ phase = "nodes"
    /\ lastCall = [op |-> "BasicNode", arg |-> None]
    /\ outcome = "returned"
    /\ warned = FALSE
    /\ followed = [s8 |-> 0, s3 |-> 0]

\* The nodes the calls are made on.
Callers == {Num(1), Num(2)}

\* What set_left / set_right are given: None, a node, a str, an RBT.
NodeArgs == NodeIds \cup {None, Str, OtherTree}

NodeCalled(r) ==
    /\ heap' = r.s
    /\ outcome' = IF r.exc = "none" THEN "returned" ELSE r.exc
    /\ UNCHANGED <<root, length, phase, lastCall, warned, followed>>

\* self.set_left(new_node)
SetLeft(self, new_node) ==
    /\ phase = "nodes"
    /\ NodeCalled(set_left_call(heap, self, new_node))

\* self.set_right(new_node)
SetRight(self, new_node) ==
    /\ phase = "nodes"
    /\ NodeCalled(set_right_call(heap, self, new_node))

NextNodes ==
    \/ \E self \in Callers, new_node \in NodeArgs : SetLeft(self, new_node)
    \/ \E self \in Callers, new_node \in NodeArgs : SetRight(self, new_node)

SpecNodes == InitNodes /\ [][NextNodes]_vars

\* ------------------------------------------------------- tree properties
\* The nodes of the subtree at n, following the left and right slots.
RECURSIVE Subtree(_, _)
Subtree(h, n) ==
    IF n = None THEN {}
    ELSE {n} \cup Subtree(h, h[n].left) \cup Subtree(h, h[n].right)

\* The numbers of BLACK nodes on the paths from n down to a null position.
RECURSIVE BlackCounts(_, _)
BlackCounts(h, n) ==
    IF n = None THEN {0}
    ELSE {c + (IF h[n].color = BLACK THEN 1 ELSE 0) :
            c \in BlackCounts(h, h[n].left) \cup BlackCounts(h, h[n].right)}

Children(h, n) == {h[n].left, h[n].right} \ {None}

\* A step that is a call insert(value), from __init__ or from the caller.
InsertCall(value) == lastCall' = [op |-> "insert", arg |-> value]

\* ------------------------------------------------------------------ claims
\* C1: after each insert call of a sequence of distinct numeric values into an
\* initially empty tree, the root node is BLACK.
C1_RootBlack == root # None => heap[root].color = BLACK

\* C2: after each insert call of a sequence of distinct numeric values into an
\* initially empty tree, no RED node reachable from root has a RED child.
C2_NoRedRed ==
    \A n \in Subtree(heap, root) :
        heap[n].color = RED => \A c \in Children(heap, n) : heap[c].color # RED

\* C3: after each insert call of a sequence of distinct numeric values into an
\* initially empty tree, every path from the root to a null child position
\* passes through the same number of BLACK nodes.
C3_BlackHeight == Cardinality(BlackCounts(heap, root)) = 1

\* C4: after each insert call of a sequence of distinct numeric values into an
\* initially empty tree, the tree is a binary search tree: every value in a
\* node's left subtree is smaller and every value in its right subtree is
\* greater than the node's value.
C4_ValidBST ==
    \A n \in Subtree(heap, root) :
        /\ \A m \in Subtree(heap, heap[n].left) : m.v < n.v
        /\ \A m \in Subtree(heap, heap[n].right) : m.v > n.v

\* A tree of at least five values in which a node has both subtrees and an
\* insert has just gone through the recoloring into the rotation.
C4_Witness ==
    /\ length >= 5
    /\ Cardinality(Subtree(heap, root)) = length
    /\ \E n \in Subtree(heap, root) : heap[n].left # None /\ heap[n].right # None
    /\ lastCall.op = "insert" /\ outcome = "AttributeError"

\* C5: insert of a numeric value already in the tree returns with only the
\* duplicate warning, and leaves root, length, every link and every color as
\* they were.
C5_DuplicateNoOp ==
    [][\A value \in DOMAIN heap :
          (IsNumber(value) /\ InsertCall(value))
              => (outcome' = "returned" /\ warned' /\ tree' = tree)]_vars

\* C6: insert of a value that is not None, not a number and not a BasicNode
\* raises TypeError, on the empty and on a non-empty tree, and leaves the tree
\* as it was.
C6_TypeErrorOnNonNumber ==
    [][\A value \in {Str, OtherTree} :
          InsertCall(value) => (outcome' = "TypeError" /\ tree' = tree)]_vars

\* C7: insert(None) raises ValueError in every tree state and leaves root,
\* length, links and colors unchanged; met in the iterable of the constructor
\* it makes the constructor raise that error at that element.
C7_NoneRejected ==
    [][InsertCall(None)
          => /\ outcome' = "ValueError"
             /\ tree' = tree
             /\ phase = "constructing" => phase' = "aborted"
             /\ phase = "constructed" => phase' = "constructed"]_vars

\* A constructor whose iterable holds two numbers and then None.
C7_Witness ==
    /\ lastCall = [op |-> "insert", arg |-> None]
    /\ outcome = "ValueError"
    /\ phase = "aborted"
    /\ length >= 2

\* The links the eight-value scenario ends with, and its black-height.
Scenario8Shape ==
    /\ root = Num(13)
    /\ heap[Num(13)].color = BLACK
    /\ heap[Num(13)].left = Num(8) /\ heap[Num(13)].right = Num(17)
    /\ heap[Num(8)].left = Num(1) /\ heap[Num(8)].right = Num(11)
    /\ heap[Num(17)].left = Num(15) /\ heap[Num(17)].right = Num(25)
    /\ BlackCounts(heap, root) = {2}

\* C8 as stated: inserting 13, 8, 17, 1, 11, 15, 25, 6 in that order into an
\* empty tree yields root 13 colored BLACK whose children 8 and 17 are both
\* BLACK, with 1 and 11 under 8 and 15 and 25 under 17, and exactly 2 BLACK
\* nodes on every path from the root to a null position.
C8_ScenarioBothBlack ==
    followed.s8 = Len(Scenario8)
        => /\ Scenario8Shape
           /\ heap[Num(8)].color = BLACK /\ heap[Num(17)].color = BLACK

\* C8 amended: the same, with child 8 colored RED and child 17 colored BLACK.
C8_Scenario ==
    followed.s8 = Len(Scenario8)
        => /\ Scenario8Shape
           /\ heap[Num(8)].color = RED /\ heap[Num(17)].color = BLACK

C8_Witness ==
    /\ followed.s8 = Len(Scenario8)
    /\ outcome = "returned"
    /\ length = 8
    /\ Num(6) \in Subtree(heap, root)

\* C9: inserting 1, 2, 3 in that order into an empty tree, the third insert
\* completes with root 2 whose left child is 1 and whose right child is 3,
\* and length 3.
C9_Ascending ==
    followed.s3 = Len(Scenario3)
        => /\ outcome = "returned"
           /\ length = 3
           /\ root = Num(2)
           /\ heap[Num(2)].left = Num(1) /\ heap[Num(2)].right = Num(3)

\* _rotate_left(x), then _rotate_right on the subtree root it returned.
RotateLeftThenRight(s, x) ==
    LET r == _rotate_left(s, x)
    IN  IF r.exc # "none" THEN r ELSE _rotate_right(r.s, r.ret)

\* _rotate_right(x), then _rotate_left on the subtree root it returned.
RotateRightThenLeft(s, x) ==
    LET r == _rotate_right(s, x)
    IN  IF r.exc # "none" THEN r ELSE _rotate_left(r.s, r.ret)

Links(h) == [n \in DOMAIN h |-> <<h[n].left, h[n].right, h[n].parent, h[n].data>>]

Colors(h) == [n \in DOMAIN h |-> h[n].color]

\* C10: for every node x with a right child, _rotate_left(x) followed by
\* _rotate_right on the returned subtree root returns with the links and
\* values of every node as they were; the same for _rotate_right then
\* _rotate_left when x has a left child; and no rotation changes a color.
C10_RotationsInverse ==
    \A x \in DOMAIN heap :
        /\ heap[x].right # None
              => /\ RotateLeftThenRight(S, x).exc = "none"
                 /\ Links(RotateLeftThenRight(S, x).s.heap) = Links(heap)
                 /\ Colors(_rotate_left(S, x).s.heap) = Colors(heap)
        /\ heap[x].left # None
              => /\ RotateRightThenLeft(S, x).exc = "none"
                 /\ Links(RotateRightThenLeft(S, x).s.heap) = Links(heap)
                 /\ Colors(_rotate_right(S, x).s.heap) = Colors(heap)

\* C11: in every state reached by constructing a tree and calling insert,
\* calls that raise included, is_empty() is true exactly when length is 0
\* and root is None.
C11_IsEmpty == is_empty(S) <=> (length = 0 /\ root = None)

\* An insert into the empty tree has raised and the tree is still empty.
C11_Witness ==
    /\ lastCall.op = "insert"
    /\ outcome = "TypeError"
    /\ is_empty(S)

\* C12: length is the number of nodes reachable from root; an insert call
\* that attaches a node adds exactly 1 to length and every other insert call
\* leaves length as it was.
C12_Length ==
    /\ [](length = Cardinality(Subtree(heap, root)))
    /\ [][\A value \in Inputs :
             InsertCall(value)
                 => length' = length + (IF DOMAIN heap' # DOMAIN heap THEN 1 ELSE 0)]_vars

\* A duplicate insert has returned on a tree of at least three nodes.
C12_Witness ==
    /\ lastCall.op = "insert"
    /\ warned
    /\ outcome = "returned"
    /\ length >= 3
    /\ length = Cardinality(Subtree(heap, root))

\* The nodes that hold n in a child slot.
Holders(h, n) == {p \in DOMAIN h : h[p].left = n \/ h[p].right = n}

\* C14: the root has no parent, every other node reachable from root has as
\* parent the one node that holds it in a child slot, and no node is held in
\* two child slots.
C14_ParentLinks ==
    /\ root # None => heap[root].parent = None
    /\ \A n \in Subtree(heap, root) \ {root} :
          /\ Holders(heap, n) = {heap[n].parent}
          /\ \A p \in Holders(heap, n) : ~(heap[p].left = n /\ heap[p].right = n)

\* A tree of at least four nodes whose latest insert raised in a rotation.
C14_Witness ==
    /\ phase = "constructed"
    /\ length >= 4
    /\ lastCall.op = "insert"
    /\ outcome = "AttributeError"

\* C15: an insert call that raises, from argument validation or from inside
\* recoloring and rotation, leaves root, length, every link and every color
\* as they were before the call.
C15_AllOrNothing ==
    [][(lastCall'.op = "insert" /\ outcome' \notin {"returned", "running"})
          => tree' = tree]_vars

\* What a returned self.set_left(n) (slot "left") or self.set_right(n) (slot
\* "right") has done, n None or a node: the slot holds n, n's parent is self,
\* and every other slot, color and value is as before.  With strict, every
\* parent pointer but n's own is required to be as before and, on top of
\* that, self's own parent and the parent of the child stored before.
SetChildEffect(self, n, slot, other, strict) ==
    /\ outcome' = "returned"
    /\ DOMAIN heap' = DOMAIN heap
    /\ heap'[self][slot] = n
    /\ heap'[self][other] = heap[self][other]
    /\ n # None => heap'[n].parent = self
    /\ \A m \in DOMAIN heap :
          /\ m # self => heap'[m].left = heap[m].left /\ heap'[m].right = heap[m].right
          /\ heap'[m].color = heap[m].color /\ heap'[m].data = heap[m].data
          /\ m # n => heap'[m].parent = heap[m].parent
    /\ strict =>
          /\ heap'[self].parent = heap[self].parent
          /\ heap[self][slot] # None
                => heap'[heap[self][slot]].parent = heap[heap[self][slot]].parent

\* A call with an argument that is neither None nor a node.
SetChildRejected == outcome' = "TypeError" /\ heap' = heap

SetChildClaim(strict) ==
    \A self \in Callers, n \in NodeArgs :
        /\ SetLeft(self, n)
              => IF n \in NodeIds \cup {None}
                 THEN SetChildEffect(self, n, "left", "right", strict)
                 ELSE SetChildRejected
        /\ SetRight(self, n)
              => IF n \in NodeIds \cup {None}
                 THEN SetChildEffect(self, n, "right", "left", strict)
                 ELSE SetChildRejected

\* C13 as stated: set_left(n) / set_right(n) with n a BasicNode stores n in
\* the slot and sets n's parent to self, while the child stored before keeps
\* its parent pointer and the other slot, self's own parent and all colors
\* and values are unchanged; with None only the slot is cleared; any other
\* argument raises TypeError and changes nothing.
C13_SetChildStrict == [][SetChildClaim(TRUE)]_vars

\* C13 amended: the same, except that the parent pointer of n itself is the
\* one that changes: self's own parent is unchanged unless n is self, and the
\* child stored before keeps its parent pointer unless it is n.
C13_SetChild == [][SetChildClaim(FALSE)]_vars

\* Node 1 holds node 2 in both slots after having held itself: node 1, the
\* child detached from its own slot, still names itself as parent.
C13_Witness ==
    /\ phase = "nodes"
    /\ outcome = "returned"
    /\ heap[Num(1)].left = Num(2) /\ heap[Num(1)].right = Num(2)
    /\ heap[Num(2)].parent = Num(1)
    /\ heap[Num(1)].parent = Num(1)

====
